---- MODULE Spec2Model ----
(***************************************************************************)
(* Model of the kinex scoring and enrichment engine                        *)
(* (src/src/kinex/sequence.py, kinex.py, enrichment.py, score.py).         *)
(*                                                                         *)
(* A Python str is a sequence of one-character strings.  A PSSM column     *)
(* name f"{pos}{aminoacid}" is the pair <<pos, aminoacid>>.  Raw scores    *)
(* and reference log2 scores are integers: the PSSM weights of the model   *)
(* are powers of two, so that log2 is exact.  A percentile is kept as the  *)
(* exact rational (rank + 1) * 100 / scoring_matrix_len, stored by its     *)
(* numerator; float rounding is not modelled.                              *)
(***************************************************************************)
EXTENDS Integers, Sequences, FiniteSets, TLC

(***************************************************************************)
(* Bounds of the model                                                     *)
(***************************************************************************)
MaxPieces == 4
\* the longest run of residues put on either side of a site
MaxFlank == 6

MaxRows == 2

MaxRefLen == 3

MaxRefVal == 2

MaxTotal == 4

MaxUnregulated == 2

MaxHits == 1
\* the largest cell of a contingency table built on its own, counted in halves
MaxCell == 8

(***************************************************************************)
(* Python str primitives                                                   *)
(***************************************************************************)
Upper(c) ==
    CASE c = "s" -> "S" [] c = "t" -> "T" [] c = "y" -> "Y"
      [] c = "p" -> "P" [] c = "h" -> "H" [] c = "a" -> "A"
      [] c = "u" -> "U" [] c = "b" -> "B" [] c = "x" -> "X"
      [] OTHER -> c

Lower(c) ==
    CASE c = "S" -> "s" [] c = "T" -> "t" [] c = "Y" -> "y"
      [] c = "P" -> "p" [] c = "H" -> "h" [] c = "A" -> "a"
      [] c = "U" -> "u" [] c = "B" -> "b" [] c = "X" -> "x"
      [] OTHER -> c

StrUpper(s) == [i \in 1..Len(s) |-> Upper(s[i])]

\* str.find: the 0-based index of the first occurrence of sub in s, or -1.
Find(s, sub) ==
    LET hits == {i \in 0..(Len(s) - Len(sub)) : SubSeq(s, i + 1, i + Len(sub)) = sub}
    IN  IF hits = {} THEN -1 ELSE CHOOSE i \in hits : \A j \in hits : i <= j

\* `sub in s`
Contains(s, sub) == Find(s, sub) # -1

\* str.split(sep) with a non-empty separator
RECURSIVE Split(_, _)
Split(s, sep) ==
    LET p == Find(s, sep)
    IN  IF p = -1 THEN <<s>>
        ELSE <<SubSeq(s, 1, p)>> \o Split(SubSeq(s, p + Len(sep) + 1, Len(s)), sep)

RECURSIVE Concat(_)
Concat(parts) ==
    IF parts = <<>> THEN <<>> ELSE Head(parts) \o Concat(Tail(parts))

\* the list f[1], ..., f[n], every entry evaluated once
RECURSIVE ListOf(_, _)
ListOf(f, n) == IF n = 0 THEN <<>> ELSE Append(ListOf(f, n - 1), f[n])

\* str.replace(old, "", regex=False)
Remove(s, old) == Concat(Split(s, old))

\* repr() of a list of str, as an f-string formats it: "['ab', 'c']"
RECURSIVE ReprItems(_)
ReprItems(l) ==
    IF l = <<>> THEN <<>>
    ELSE <<"'">> \o Head(l) \o <<"'">>
         \o (IF Len(l) > 1 THEN <<",", " ">> ELSE <<>>) \o ReprItems(Tail(l))

ReprList(l) == <<"[">> \o ReprItems(l) \o <<"]">>

(***************************************************************************)
(* sequence.py                                                             *)
(***************************************************************************)
allowed_characters ==
    {"P", "G", "A", "C", "S", "T", "V", "I", "L", "M", "F", "Y", "W", "H",
     "K", "R", "Q", "N", "D", "E", "s", "t", "y", "X", "_", "*"}

ASTERISK == <<"*">>

PH == <<"(", "p", "h", ")">>

\* the members of the enum SequenceSeparator, in definition order
SequenceSeparator == <<ASTERISK, PH>>

\* the members of the enum SequenceType, in definition order, with their values
SequenceTypeNames == <<"SER_THR", "TYR">>

SequenceTypeValue(t) == IF t = "SER_THR" THEN {"S", "T"} ELSE {"Y"}

\* len(s) // 2 as a 1-based index
Middle(s) == (Len(s) \div 2) + 1

is_central_sequence_valid(sequence_string) ==
    /\ sequence_string[Middle(sequence_string)] \in {"S", "T", "Y", "s", "t", "y"}
    /\ \A i \in 1..Len(sequence_string) :
          sequence_string[i] \in allowed_characters \ {"*"}

get_valid_patterns(separator) ==
    {<<a>> \o separator : a \in {"S", "T", "Y", "s", "t", "y"}}

is_separator_sequence_valid(sequence_string, separator) ==
    /\ ~Contains(sequence_string, separator \o separator)
    /\ \E pattern \in get_valid_patterns(separator) : Contains(sequence_string, pattern)
    /\ \A i \in 1..Len(sequence_string) : sequence_string[i] \in allowed_characters

\* get_sequence_type: the SequenceType of a residue, or "ValueError"
get_sequence_type(aminoacid) ==
    LET a == Upper(aminoacid)
    IN  IF a \in SequenceTypeValue("SER_THR") THEN "SER_THR"
        ELSE IF a \in SequenceTypeValue("TYR") THEN "TYR"
        ELSE "ValueError"

NoObject == [kind |-> "none", separator |-> <<>>, sequence_type |-> "none",
             sequence_string |-> <<>>, exc |-> "none"]

Raised(e) == [NoObject EXCEPT !.exc = e]

\* get_sequence_object: the Sequence object built, or the exception raised
RECURSIVE sequence_object_from(_, _)
sequence_object_from(sequence, n) ==
    IF n > Len(SequenceSeparator)
    THEN IF Len(sequence) % 2 = 1
         THEN LET t == get_sequence_type(sequence[Middle(sequence)])
              IN  IF t = "ValueError" THEN Raised("ValueError")
                  ELSE [kind |-> "central", separator |-> <<>>, sequence_type |-> t,
                        sequence_string |-> sequence, exc |-> "none"]
         ELSE Raised("ValueError")
    ELSE LET separator == SequenceSeparator[n]
             position == Find(sequence, separator)
         IN  IF position > 0
             THEN LET t == get_sequence_type(sequence[position])
                  IN  IF t = "ValueError" THEN Raised("ValueError")
                      ELSE [kind |-> "separator", separator |-> separator,
                            sequence_type |-> t, sequence_string |-> sequence,
                            exc |-> "none"]
             ELSE sequence_object_from(sequence, n + 1)

get_sequence_object(sequence) == sequence_object_from(sequence, 1)

\* SeparatorSequence.preprocess_sequence, first loop: the last residue of every
\* fragment but the last is lower-cased; item[-1] of an empty fragment raises.
LowerLast(item) == SubSeq(item, 1, Len(item) - 1) \o <<Lower(item[Len(item)])>>

MarkFragments(fragments) ==
    [i \in 1..Len(fragments) |->
        IF i # Len(fragments) THEN LowerLast(fragments[i]) ELSE fragments[i]]

\* second loop: index runs over range(n - 1) for the length n before the loop;
\* the candidate is the f-string of two list slices around the separator.
RECURSIVE AppendCandidates(_, _, _, _)
AppendCandidates(sequences, separator, index, n) ==
    IF index >= n - 1 THEN sequences
    ELSE LET seq == ReprList(SubSeq(sequences, 1, index + 1)) \o separator
                    \o ReprList(SubSeq(sequences, index + 2, Len(sequences)))
         IN  IF ~is_separator_sequence_valid(seq, separator)
             THEN AppendCandidates(sequences, separator, index + 1, n)
             ELSE AppendCandidates(Append(sequences, seq), separator, index + 1, n)

\* SeparatorSequence.preprocess_sequence: [exc, sequences]
preprocess_sequence(obj) ==
    IF obj.kind = "central" THEN [exc |-> "none", sequences |-> <<>>]
    ELSE LET fragments == Split(obj.sequence_string, obj.separator)
         IN  IF \E i \in 1..(Len(fragments) - 1) : fragments[i] = <<>>
             THEN [exc |-> "IndexError", sequences |-> <<>>]
             ELSE [exc |-> "none",
                   sequences |-> AppendCandidates(MarkFragments(fragments),
                                     obj.separator, 0, Len(fragments))]

\* validate_sequence of either class: "none" or the exception raised
validate_sequence(obj, sequences) ==
    IF obj.kind = "central"
    THEN IF is_central_sequence_valid(obj.sequence_string) THEN "none" ELSE "ValueError"
    ELSE IF Len(sequences) = 0 THEN "ValueError" ELSE "none"

\* get_split_sequence of either class
get_split_sequence(obj) ==
    IF obj.kind = "central"
    THEN LET s == obj.sequence_string
         IN  <<SubSeq(s, 1, Len(s) \div 2), SubSeq(s, (Len(s) \div 2) + 2, Len(s))>>
    ELSE LET parts == Split(obj.sequence_string, obj.separator)
         IN  [parts EXCEPT ![1] = SubSeq(parts[1], 1, Len(parts[1]) - 1)]

Reverse(s) == [i \in 1..Len(s) |-> s[Len(s) + 1 - i]]

\* a window one position wider on either side
wide_range(sequence_type) ==
    IF sequence_type = "TYR" THEN <<-6, 6>> ELSE <<-6, 5>>

columns_range(sequence_type) ==
    IF sequence_type = "TYR" THEN <<-5, 5>> ELSE <<-5, 4>>

\* the inner loop of get_columns_list over one part
RECURSIVE PartColumns(_, _, _, _)
PartColumns(part, part_id, position, range) ==
    IF position >= Len(part) THEN <<>>
    ELSE LET aminoacid == part[position + 1]
             pos == IF part_id = 0 THEN (position + 1) * (-1) ELSE position + 1
             rest == PartColumns(part, part_id, position + 1, range)
         IN  IF aminoacid \in {"_", "X"} THEN rest
             ELSE IF range[1] <= pos /\ pos <= range[2]
                  THEN <<(<<pos, aminoacid>>)>> \o rest
                  ELSE rest

\* the parts in the order of the string: C-terminal tokens before the N-terminal ones
parts_last_first(parts, part_id, range) ==
    IF Len(parts) < 2 THEN PartColumns(Reverse(parts[1]), 0, 0, range)
    ELSE PartColumns(parts[2], 1, 0, range)
         \o PartColumns(Reverse(parts[1]), 0, 0, range)

RECURSIVE PartsColumns(_, _, _)
PartsColumns(parts, part_id, range) ==
    IF part_id >= Len(parts) THEN <<>>
    ELSE LET part == IF part_id = 0 THEN Reverse(parts[1]) ELSE parts[part_id + 1]
         IN  PartColumns(part, part_id, 0, range)
             \o PartsColumns(parts, part_id + 1, range)

\* Sequence.get_columns_list
get_columns_list(obj) ==
    PartsColumns(get_split_sequence(obj), 0, columns_range(obj.sequence_type))

(***************************************************************************)
(* The tables a Kinex object holds                                         *)
(***************************************************************************)
\* the window of positions of the columns of either PSSM table
WindowLow == -5

WindowHighSerThr == 4

WindowHighTyr == 5

\* the number of rows Score.top is asked for by get_enrichment
TopN == 15

\* the residues that have a PSSM column at every position
PssmResidues ==
    <<"P", "G", "A", "C", "S", "T", "V", "I", "L", "M", "F", "Y", "W", "H",
      "K", "R", "Q", "N", "D", "E", "s", "t", "y">>

ResidueSet == {PssmResidues[i] : i \in 1..Len(PssmResidues)}

ResidueCode(a) == CHOOSE i \in 1..Len(PssmResidues) : PssmResidues[i] = a

\* the row index of each PSSM table, in row order
PssmIndex(sequence_type) ==
    IF sequence_type = "SER_THR"
    THEN <<"ZAK", "AAK1", "ACVR2A", "ACVR2B", "AKT1", "AKT2", "AKT3", "ALK2",
           "ALK4", "AMPKA1", "AMPKA2", "ATM", "ATR", "AURA", "AURB", "YSK4">>
    ELSE <<"SRC", "ABL">>

\* all kinase names in ascending (lexicographic) order, the order groupby sorts by
KinaseNames ==
    <<"AAK1", "ABL", "ACVR2A", "ACVR2B", "AKT1", "AKT2", "AKT3", "ALK2", "ALK4",
      "AMPKA1", "AMPKA2", "ATM", "ATR", "AURA", "AURB", "SRC", "YSK4", "ZAK">>

NameRank(k) == CHOOSE i \in 1..Len(KinaseNames) : KinaseNames[i] = k

ToSet(seq) == {seq[i] : i \in 1..Len(seq)}

\* the columns of a PSSM table
PssmColumns(sequence_type) ==
    IF sequence_type = "SER_THR"
    THEN ({p \in WindowLow..WindowHighSerThr : p # 0} \X ResidueSet)
         \cup {<<0, "S">>, <<0, "T">>}
    ELSE {p \in WindowLow..WindowHighTyr : p # 0} \X ResidueSet

Pow2(e) == IF e = 0 THEN 1 ELSE IF e = 1 THEN 2 ELSE 4

\* the PSSM weight of the kinase in row i at a column
PssmWeight(i, column) == Pow2((i * (column[1] + 6) + ResidueCode(column[2])) % 3)

\* the reference scoring matrices a Kinex object may be built from: one list of
\* log2 scores per kinase, in the row order of the matrix passed in
RefRows(order) ==
    IF order = "ascending" THEN <<0, 1, 2>> ELSE <<2, 0, 1>>

ScoringMatrix(order, sequence_type) ==
    [k \in ToSet(PssmIndex(sequence_type)) |->
        [r \in 1..Len(RefRows(order)) |-> RefRows(order)[r] + (NameRank(k) % 3)]]

\* Kinex.__init__: the per-kinase lists and the row count of a scoring matrix
KinexInit(order) ==
    [scoring_matrix |-> [t \in ToSet(SequenceTypeNames) |-> ScoringMatrix(order, t)],
     scoring_matrix_len |-> [t \in ToSet(SequenceTypeNames) |-> Len(RefRows(order))]]

(***************************************************************************)
(* Scoring                                                                 *)
(***************************************************************************)
\* the weight of the first listed column alone
first_weight(i, columns) ==
    IF columns = <<>> THEN 1 ELSE PssmWeight(i, Head(columns))

\* score_df.prod(axis=1) for the kinase in row i
RECURSIVE ColumnsProduct(_, _)
ColumnsProduct(i, columns) ==
    IF columns = <<>> THEN 1
    ELSE PssmWeight(i, Head(columns)) * ColumnsProduct(i, Tail(columns))

\* sequence.get_score: one row [kinase, score] per PSSM row, or KeyError
get_score(columns, sequence_type) ==
    IF \E c \in 1..Len(columns) : columns[c] \notin PssmColumns(sequence_type)
    THEN [exc |-> "KeyError", table |-> <<>>]
    ELSE [exc |-> "none",
          table |-> ListOf([i \in 1..Len(PssmIndex(sequence_type)) |->
                               [kinase |-> PssmIndex(sequence_type)[i],
                                score |-> ColumnsProduct(i, columns)]],
                           Len(PssmIndex(sequence_type)))]

\* the favorability column SeparatorSequence.get_sequence_scores adds for one entry
SeparatorFavorability(sequence, separator) ==
    LET seq_upper == StrUpper(sequence)
    IN  IF Contains(seq_upper, <<"S">> \o separator) THEN <<(<<0, "S">>)>>
        ELSE IF Contains(seq_upper, <<"T">> \o separator) THEN <<(<<0, "T">>)>>
        ELSE <<>>

\* the favorability column CentralSequence.get_sequence_scores adds
CentralFavorability(sequence_string) ==
    LET seq_upper == StrUpper(sequence_string)
    IN  IF seq_upper[Middle(seq_upper)] = "S" THEN <<(<<0, "S">>)>>
        ELSE IF seq_upper[Middle(seq_upper)] = "T" THEN <<(<<0, "T">>)>>
        ELSE <<>>

\* the column list scored for the n-th entry of `sequences` (n = 1 for central)
ScoredColumns(obj, sequences, n, favorability) ==
    get_columns_list(obj)
    \o (IF ~favorability THEN <<>>
        ELSE IF obj.kind = "central" THEN CentralFavorability(obj.sequence_string)
        ELSE SeparatorFavorability(sequences[n], obj.separator))

\* get_sequence_scores of either class: the list of score tables, or KeyError
get_sequence_scores(obj, sequences, favorability) ==
    LET n == IF obj.kind = "central" THEN 1 ELSE Len(sequences)
        each == ListOf([j \in 1..n |->
                          get_score(ScoredColumns(obj, sequences, j, favorability),
                                    obj.sequence_type)], n)
    IN  IF \E j \in 1..n : each[j].exc # "none"
        THEN [exc |-> "KeyError", tables |-> <<>>]
        ELSE [exc |-> "none", tables |-> ListOf([j \in 1..n |-> each[j].table], n)]

\* floor(log2(n)) for n >= 1; exact for the powers of two the PSSM weights produce
RECURSIVE Log2(_)
Log2(n) == IF n <= 1 THEN 0 ELSE 1 + Log2(n \div 2)

\* bisect.bisect_right, the lookup that also counts the entries equal to x
RECURSIVE BisectRightLoop(_, _, _, _)
BisectRightLoop(a, x, lo, hi) ==
    IF lo < hi
    THEN LET mid == (lo + hi) \div 2
         IN  IF x < a[mid + 1] THEN BisectRightLoop(a, x, lo, mid)
             ELSE BisectRightLoop(a, x, mid + 1, hi)
    ELSE lo

bisect_right(a, x) == BisectRightLoop(a, x, 0, Len(a))

\* bisect.bisect_left(a, x), the binary search as the library runs it
RECURSIVE BisectLoop(_, _, _, _)
BisectLoop(a, x, lo, hi) ==
    IF lo < hi
    THEN LET mid == (lo + hi) \div 2
         IN  IF a[mid + 1] < x THEN BisectLoop(a, x, mid + 1, hi)
             ELSE BisectLoop(a, x, lo, mid)
    ELSE lo

bisect_left(a, x) == BisectLoop(a, x, 0, Len(a))

\* the percentile of Kinex.get_score, (bisect_left(...) + 1) * (100 / len), as the
\* exact fraction num / den
Percentile(reference, log_score, scoring_matrix_len) ==
    [num |-> (bisect_left(reference, log_score) + 1) * 100,
     den |-> scoring_matrix_len]

\* comparisons of two such fractions (both denominators are positive)
PctGreater(p, q) == p.num * q.den > q.num * p.den

PctEqual(p, q) == p.num * q.den = q.num * p.den

RECURSIVE SumOver(_, _)
SumOver(f, n) == IF n = 0 THEN 0 ELSE f[n] + SumOver(f, n - 1)

Min(S) == CHOOSE x \in S : \A y \in S : x <= y

Max(S) == CHOOSE x \in S : \A y \in S : x >= y

\* the rows of a table in ascending order of kinase name (groupby sorts its keys)
SortByName(table) ==
    LET n == Len(table)
        place == ListOf([i \in 1..n |-> Cardinality({j \in 1..n :
                        NameRank(table[j].kinase) < NameRank(table[i].kinase)}) + 1], n)
    IN  ListOf([p \in 1..n |-> table[CHOOSE i \in 1..n : place[i] = p]], n)

ScoreOf(table, kinase) ==
    (CHOOSE r \in ToSet(table) : r.kinase = kinase).score

\* the match on `method` in Kinex.get_score: the list of tables that is ranked
Aggregate(tables, method) ==
    LET n == Len(tables)
        scores(k) == {ScoreOf(tables[j], k) : j \in 1..n}
        byName == SortByName(tables[1])
    IN  CASE method = "min" ->
               <<ListOf([i \in 1..Len(byName) |->
                    [kinase |-> byName[i].kinase, score |-> Min(scores(byName[i].kinase))]],
                    Len(byName))>>
          [] method = "max" ->
               <<ListOf([i \in 1..Len(byName) |->
                    [kinase |-> byName[i].kinase, score |-> Max(scores(byName[i].kinase))]],
                    Len(byName))>>
          [] method = "avg" ->
               <<ListOf([i \in 1..Len(tables[1]) |->
                    [kinase |-> tables[1][i].kinase,
                     score |-> SumOver([j \in 1..n |->
                                  ScoreOf(tables[j], tables[1][i].kinase)], n) \div n]],
                    Len(tables[1]))>>
          [] OTHER -> tables

\* the table left in the order it was built in
unsorted(table) == table

\* sort_values("percentile_score", ascending=False); rows of equal percentile keep
\* their order, as the sort of pandas does on tables this small
SortByPercentile(table) ==
    LET n == Len(table)
        place == ListOf([i \in 1..n |-> Cardinality({j \in 1..n :
                        \/ PctGreater(table[j].percentile_score,
                                      table[i].percentile_score)
                        \/ /\ PctEqual(table[j].percentile_score,
                                       table[i].percentile_score)
                           /\ j < i}) + 1], n)
    IN  ListOf([p \in 1..n |-> table[CHOOSE i \in 1..n : place[i] = p]], n)

\* the loop of Kinex.get_score over one table: log_score, percentile_score, sort
RankTable(table, scoring_matrix, scoring_matrix_len) ==
    SortByPercentile(ListOf(
        [i \in 1..Len(table) |->
            [kinase |-> table[i].kinase,
             score |-> table[i].score,
             log_score |-> Log2(table[i].score),
             percentile_score |->
                 Percentile(scoring_matrix[table[i].kinase], Log2(table[i].score),
                            scoring_matrix_len)]],
        Len(table)))

NoScore == [exc |-> "none", scored |-> FALSE, sequence |-> NoObject,
            sequences |-> <<>>, ranking |-> <<>>]

Methods == {"min", "max", "avg", "all"}

\* Kinex.get_score: the Score returned (its sequence object and ranking), or the
\* exception raised; `scored` tells whether get_sequence_scores was entered.
KinexGetScore(kinex, sequence, phospho_priming, favorability, method) ==
    IF Len(sequence) < 3 THEN [NoScore EXCEPT !.exc = "ValueError"]
    ELSE IF method \notin Methods THEN [NoScore EXCEPT !.exc = "ValueError"]
    ELSE
    LET seq == IF ~phospho_priming THEN StrUpper(sequence) ELSE sequence
        sequence_object == get_sequence_object(seq)
    IN  IF sequence_object.exc # "none"
        THEN [NoScore EXCEPT !.exc = sequence_object.exc]
        ELSE
        LET pre == preprocess_sequence(sequence_object)
        IN  IF pre.exc # "none"
            THEN [NoScore EXCEPT !.exc = pre.exc, !.sequence = sequence_object]
            ELSE IF validate_sequence(sequence_object, pre.sequences) # "none"
            THEN [NoScore EXCEPT !.exc = "ValueError", !.sequence = sequence_object,
                                 !.sequences = pre.sequences]
            ELSE
            LET scores_results ==
                    get_sequence_scores(sequence_object, pre.sequences, favorability)
                t == sequence_object.sequence_type
            IN  IF scores_results.exc # "none"
                THEN [exc |-> scores_results.exc, scored |-> TRUE,
                      sequence |-> sequence_object, sequences |-> pre.sequences,
                      ranking |-> <<>>]
                ELSE LET agg == Aggregate(scores_results.tables, method)
                     IN  [exc |-> "none", scored |-> TRUE,
                          sequence |-> sequence_object, sequences |-> pre.sequences,
                          ranking |-> ListOf([j \in 1..Len(agg) |->
                                         RankTable(agg[j], kinex.scoring_matrix[t],
                                                   kinex.scoring_matrix_len[t])],
                                             Len(agg))]

\* every table whole, whatever the number asked for
head_all(ranking, number) == ranking

\* Score.top: DataFrame.head(number) of every table; a negative number leaves
\* out that many rows at the end
top(ranking, number) ==
    [j \in 1..Len(ranking) |->
        SubSeq(ranking[j], 1,
               IF number < 0 THEN Len(ranking[j]) + number
               ELSE IF number < Len(ranking[j]) THEN number ELSE Len(ranking[j]))]

\* the count that takes in the kinases at the limit itself
count_at_least(ranking, limit) ==
    [j \in 1..Len(ranking) |->
        Cardinality({i \in 1..Len(ranking[j]) :
            ranking[j][i].percentile_score.num
                >= limit * ranking[j][i].percentile_score.den})]

\* Score.promiscuity_index
promiscuity_index(ranking, limit) ==
    [j \in 1..Len(ranking) |->
        Cardinality({i \in 1..Len(ranking[j]) :
            ranking[j][i].percentile_score.num
                > limit * ranking[j][i].percentile_score.den})]

(***************************************************************************)
(* State                                                                   *)
(***************************************************************************)
VARIABLES
    kinex,            \* the Kinex object: scoring_matrix and scoring_matrix_len
    sequence,         \* the str argument of the call under way
    phospho_priming,  \* argument of get_score / get_enrichment
    favorability,     \* argument of get_score / get_enrichment
    method,           \* argument of get_score / get_enrichment
    pc,               \* position of the caller
    exc,              \* the exception that ended the call, or "none"
    sequence_object,  \* the object get_sequence_object returned
    sequences,        \* SeparatorSequence.sequences
    columns,          \* the list get_columns_list returned
    score_result,     \* the Score Kinex.get_score returned
    reference,        \* one kinase's list of the scoring matrix
    log_score,        \* a log2 score looked up in `reference`
    percentile,       \* the percentile computed for log_score
    input_sites,      \* argument of get_enrichment: rows [site, fc]
    input_sites_copy, \* the copy whose first column is stripped of annotations
    fc_threshold,     \* argument of get_enrichment
    id,               \* the loop variable of get_enrichment (rows done so far)
    failed_sites,     \* the list get_enrichment collects
    enrichment,       \* the two Enrichment objects, by SequenceType
    table2x2,         \* the Table2x2 object under construction
    answer            \* the last method called on a result, and what it returned

vars == <<kinex, sequence, phospho_priming, favorability, method, pc, exc,
          sequence_object, sequences, columns, score_result, reference, log_score,
          percentile, input_sites, input_sites_copy, fc_threshold, id,
          failed_sites, enrichment, table2x2, answer>>

\* the input strings: every concatenation of at most n of these pieces
Pieces == {<<"S">>, <<"T">>, <<"Y">>, <<"A">>, <<"X">>, <<"B">>, ASTERISK, PH}

Strings(n) == {Concat(ps) : ps \in UNION {[1..k -> Pieces] : k \in 0..n}}

MatrixOrders == {"ascending", "as_given"}

NoEnrichment == [t \in {"SER_THR", "TYR"} |-> <<>>]

\* the variables of the calls a specification does not make
IdleSequence ==
    /\ sequence = <<>>
    /\ sequence_object = NoObject
    /\ sequences = <<>>
    /\ columns = <<>>

IdleScore ==
    /\ phospho_priming = FALSE
    /\ favorability = FALSE
    /\ method = "avg"
    /\ score_result = NoScore

IdlePercentile ==
    /\ reference = <<>>
    /\ log_score = 0
    /\ percentile = [num |-> 0, den |-> 1]

\* no Table2x2 object, and no method called on a result
NoTable == [argument |-> <<>>, table |-> <<>>, shift_zeros |-> "False", exc |-> "none"]
NoAnswer == [op |-> "none", arg |-> <<>>, value |-> <<>>]

IdleQueries ==
    /\ table2x2 = NoTable
    /\ answer = NoAnswer

IdleEnrichment ==
    /\ input_sites = <<>>
    /\ input_sites_copy = <<>>
    /\ fc_threshold = 0
    /\ id = 0
    /\ failed_sites = <<>>
    /\ enrichment = NoEnrichment

(***************************************************************************)
(* The sequence module, driven as its tests drive it                       *)
(***************************************************************************)
InitSeq ==
    /\ kinex = KinexInit("ascending")
    /\ sequence \in Strings(MaxPieces)
    /\ sequence_object = NoObject
    /\ sequences = <<>>
    /\ columns = <<>>
    /\ pc = "new"
    /\ exc = "none"
    /\ IdleScore /\ IdlePercentile /\ IdleEnrichment /\ IdleQueries

GetSequenceObject ==
    /\ pc = "new"
    /\ sequence_object' = get_sequence_object(sequence)
    /\ exc' = sequence_object'.exc
    /\ pc' = IF exc' = "none" THEN "object" ELSE "raised"
    /\ UNCHANGED <<kinex, sequence, phospho_priming, favorability, method, sequences,
                   columns, score_result, reference, log_score, percentile,
                   input_sites, input_sites_copy, fc_threshold, id, failed_sites,
                   enrichment, table2x2, answer>>

PreprocessSequence ==
    /\ pc = "object"
    /\ LET pre == preprocess_sequence(sequence_object)
       IN  /\ sequences' = pre.sequences
           /\ exc' = pre.exc
    /\ pc' = IF exc' = "none" THEN "preprocessed" ELSE "raised"
    /\ UNCHANGED <<kinex, sequence, phospho_priming, favorability, method,
                   sequence_object, columns, score_result, reference, log_score,
                   percentile, input_sites, input_sites_copy, fc_threshold, id,
                   failed_sites, enrichment, table2x2, answer>>

ValidateSequence ==
    /\ pc = "preprocessed"
    /\ exc' = validate_sequence(sequence_object, sequences)
    /\ pc' = IF exc' = "none" THEN "valid" ELSE "raised"
    /\ UNCHANGED <<kinex, sequence, phospho_priming, favorability, method,
                   sequence_object, sequences, columns, score_result, reference,
                   log_score, percentile, input_sites, input_sites_copy,
                   fc_threshold, id, failed_sites, enrichment, table2x2, answer>>

GetColumnsList ==
    /\ pc = "valid"
    /\ columns' = get_columns_list(sequence_object)
    /\ pc' = "columns"
    /\ UNCHANGED <<kinex, sequence, phospho_priming, favorability, method, exc,
                   sequence_object, sequences, score_result, reference, log_score,
                   percentile, input_sites, input_sites_copy, fc_threshold, id,
                   failed_sites, enrichment, table2x2, answer>>

\* the column name get_score appends to the list it is given
KinaseColumn == <<0, "kinase">>

\* sequence.get_score on the list of columns and the PSSM of the family
ScoreColumns ==
    /\ pc = "columns"
    /\ LET r == get_score(columns, sequence_object.sequence_type)
       IN  /\ score_result' = [NoScore EXCEPT !.exc = r.exc,
                                             !.scored = TRUE,
                                             !.sequence = sequence_object,
                                             !.ranking = <<r.table>>]
           /\ exc' = r.exc
           /\ pc' = IF r.exc = "none" THEN "scored" ELSE "raised"
    /\ columns' = Append(columns, KinaseColumn)
    /\ UNCHANGED <<kinex, sequence, phospho_priming, favorability, method,
                   sequence_object, sequences, reference, log_score, percentile,
                   input_sites, input_sites_copy, fc_threshold, id, failed_sites,
                   enrichment, table2x2, answer>>

NextSeq ==
    \/ GetSequenceObject
    \/ PreprocessSequence
    \/ ValidateSequence
    \/ GetColumnsList
    \/ ScoreColumns

SpecSeq == InitSeq /\ [][NextSeq]_vars

(***************************************************************************)
(* Sites with long flanks: the window of get_columns_list                  *)
(***************************************************************************)
\* the lengths of a flank: none, and the lengths around the window's edge
FlankLengths == {0} \cup ((MaxFlank - 2)..MaxFlank)

FlankStyles == {"A", "X", "XA", "_A"}

\* the i-th residue of a flank, counted from the site
FlankResidue(style, i) ==
    IF style = "A" THEN "A"
    ELSE IF style = "X" THEN "X"
    ELSE IF i % 2 = 0 THEN "A"
    ELSE IF style = "XA" THEN "X" ELSE "_"

LeftFlank(style, n) == [i \in 1..n |-> FlankResidue(style, n + 1 - i)]
RightFlank(style, n) == [i \in 1..n |-> FlankResidue(style, i)]

\* the sites: an acceptor or another residue, bare or marked, and two marked sites
FlankedCores ==
    {<<"S">>, <<"T">>, <<"Y">>, <<"A">>, <<"s">>,
     <<"S">> \o ASTERISK, <<"Y">> \o ASTERISK, <<"T">> \o PH, <<"Y">> \o PH,
     <<"A">> \o ASTERISK,
     <<"S">> \o ASTERISK \o <<"A", "Y">> \o ASTERISK}

FlankedSequences ==
    {LeftFlank(ls, l) \o core \o RightFlank(rs, r) :
        l \in FlankLengths, r \in FlankLengths,
        ls \in FlankStyles, rs \in FlankStyles, core \in FlankedCores}

InitWin ==
    /\ kinex = KinexInit("ascending")
    /\ sequence \in FlankedSequences
    /\ sequence_object = NoObject
    /\ sequences = <<>>
    /\ columns = <<>>
    /\ pc = "new"
    /\ exc = "none"
    /\ IdleScore /\ IdlePercentile /\ IdleEnrichment /\ IdleQueries

SpecWin == InitWin /\ [][NextSeq]_vars

(***************************************************************************)
(* The percentile lookup of Kinex.get_score on one kinase: `reference` is   *)
(* scoring_matrix[kinase], and scoring_matrix_len is its length, both      *)
(* taken from the same matrix by Kinex.__init__                            *)
(***************************************************************************)
RefLists == UNION {[1..n -> 0..MaxRefVal] : n \in 1..MaxRefLen}

InitPct ==
    /\ kinex = KinexInit("ascending")
    /\ reference \in RefLists
    /\ log_score \in -1..(MaxRefVal + 1)
    /\ percentile = [num |-> 0, den |-> 1]
    /\ pc = "lookup"
    /\ exc = "none"
    /\ IdleSequence /\ IdleScore /\ IdleEnrichment /\ IdleQueries

ComputePercentile ==
    /\ pc = "lookup"
    /\ percentile' = Percentile(reference, log_score, Len(reference))
    /\ pc' = "ranked"
    /\ UNCHANGED <<kinex, sequence, phospho_priming, favorability, method, exc,
                   sequence_object, sequences, columns, score_result, reference,
                   log_score, input_sites, input_sites_copy, fc_threshold, id,
                   failed_sites, enrichment, table2x2, answer>>

NextPct == ComputePercentile

SpecPct == InitPct /\ [][NextPct]_vars

(***************************************************************************)
(* Kinex.get_score                                                         *)
(***************************************************************************)
MethodArguments == Methods \cup {"median"}

InitScore ==
    /\ \E order \in MatrixOrders : kinex = KinexInit(order)
    /\ sequence \in Strings(MaxPieces - 1)
    /\ phospho_priming \in BOOLEAN
    /\ favorability \in BOOLEAN
    /\ method \in MethodArguments
    /\ score_result = NoScore
    /\ sequence_object = NoObject
    /\ sequences = <<>>
    /\ columns = <<>>
    /\ pc = "call"
    /\ exc = "none"
    /\ IdlePercentile /\ IdleEnrichment /\ IdleQueries

GetScore ==
    /\ pc = "call"
    /\ score_result' = KinexGetScore(kinex, sequence, phospho_priming, favorability,
                                     method)
    /\ exc' = score_result'.exc
    /\ pc' = IF exc' = "none" THEN "returned" ELSE "raised"
    /\ UNCHANGED <<kinex, sequence, phospho_priming, favorability, method,
                   sequence_object, sequences, columns, reference, log_score,
                   percentile, input_sites, input_sites_copy, fc_threshold, id,
                   failed_sites, enrichment, table2x2, answer>>

\* the limits and the numbers of rows asked of a Score
Limits == {0, 50, 90, 100, 150}

Numbers == {-1, 0, 1, 2, 3, TopN, TopN + 1, TopN + 2}

\* Score.promiscuity_index on the Score get_score returned
PromiscuityIndex ==
    /\ pc = "returned"
    /\ answer = NoAnswer
    /\ \E limit \in Limits :
           answer' = [op |-> "promiscuity_index", arg |-> <<limit>>,
                      value |-> promiscuity_index(score_result.ranking, limit)]
    /\ UNCHANGED <<kinex, sequence, phospho_priming, favorability, method, pc, exc,
                   sequence_object, sequences, columns, score_result, reference,
                   log_score, percentile, input_sites, input_sites_copy,
                   fc_threshold, id, failed_sites, enrichment, table2x2>>

\* Score.top on the Score get_score returned
Top ==
    /\ pc = "returned"
    /\ answer = NoAnswer
    /\ \E number \in Numbers :
           answer' = [op |-> "top", arg |-> <<number>>,
                      value |-> top(score_result.ranking, number)]
    /\ UNCHANGED <<kinex, sequence, phospho_priming, favorability, method, pc, exc,
                   sequence_object, sequences, columns, score_result, reference,
                   log_score, percentile, input_sites, input_sites_copy,
                   fc_threshold, id, failed_sites, enrichment, table2x2>>

NextScore == GetScore \/ PromiscuityIndex \/ Top

SpecScore == InitScore /\ [][NextScore]_vars

(***************************************************************************)
(* Kinex.get_enrichment                                                    *)
(***************************************************************************)
\* float(str(fold change)): a number, or nan, with which every comparison is false
Float(x) == [nan |-> FALSE, value |-> x]

NaN == [nan |-> TRUE, value |-> 0]

FloatGe(v, t) == ~v.nan /\ v.value >= t

FloatLe(v, t) == ~v.nan /\ v.value <= t

FloatLt(v, t) == ~v.nan /\ v.value < t

\* the label get_enrichment gives a row with fold change v ("" when no branch fires)
Regulation(v, threshold) ==
    IF FloatGe(v, threshold) THEN "upregulated"
    ELSE IF FloatLe(v, 0 - threshold) THEN "downregulated"
    ELSE IF FloatLt(v, threshold) THEN "unregulated"
    ELSE ""

\* the columns of Enrichment.enrichment_table that count hits; "" is the column
\* a row without label adds (a column of zeros stands for an absent column)
HitColumns == {"upregulated", "downregulated", "unregulated", ""}

\* Enrichment.__init__
NewEnrichment(sequence_type) ==
    [sequence_type |-> sequence_type,
     total_upregulated |-> 0,
     total_downregulated |-> 0,
     total_unregulated |-> 0,
     regulation_list |-> <<>>,
     top15_kinases_list |-> <<>>,
     enrichment_table |-> <<>>,
     all_kinases |-> ToSet(PssmIndex(sequence_type))]

\* the four str.replace calls on the first column of the copy
StripAnnotations(site) ==
    Remove(Remove(Remove(Remove(site, <<"(", "u", "b", ")">>),
                         <<"(", "o", "x", ")">>),
                  <<"(", "a", "c", ")">>),
           <<"(", "d", "e", ")">>)

\* the totals after the if / elif / elif on the fold change
AddTotal(e, regulation) ==
    CASE regulation = "upregulated" ->
             [e EXCEPT !.total_upregulated = @ + 1]
      [] regulation = "downregulated" ->
             [e EXCEPT !.total_downregulated = @ + 1]
      [] regulation = "unregulated" ->
             [e EXCEPT !.total_unregulated = @ + 1]
      [] OTHER -> e

\* the table in which the last site of a kinase replaces its earlier hits
replace_hits(table, top15_kinases, regulation) ==
    [k \in (DOMAIN table) \cup ToSet(top15_kinases) |->
        [c \in HitColumns |->
            IF k \in ToSet(top15_kinases) THEN (IF c = regulation THEN 1 ELSE 0)
            ELSE table[k][c]]]

\* pd.concat([table, {kinase: top15, regulation: ones}]).groupby("kinase").sum():
\* the table is a function from the kinases that have a row to their hit counts
AddHits(table, top15_kinases, regulation) ==
    [k \in (DOMAIN table) \cup ToSet(top15_kinases) |->
        [c \in HitColumns |->
            (IF k \in DOMAIN table THEN table[k][c] ELSE 0)
            + (IF k \in ToSet(top15_kinases) /\ c = regulation THEN 1 ELSE 0)]]

KinasesOf(table) == [i \in 1..Len(table) |-> table[i].kinase]

\* the body of the loop of get_enrichment after a successful get_score
Accumulate(e, score, fc, threshold) ==
    LET regulation == Regulation(fc, threshold)
        top15_kinases == KinasesOf(top(score.ranking, TopN)[1])
        counted == AddTotal(e, regulation)
    IN  [counted EXCEPT
            !.regulation_list = Append(@, regulation),
            !.top15_kinases_list = Append(@, top15_kinases),
            !.enrichment_table = AddHits(@, top15_kinases, regulation)]

(***************************************************************************)
(* Enrichment statistics (enrichment.py, table2x2.py)                      *)
(***************************************************************************)
\* the rational number num / den; floats that are halves or ratios are kept exact
Frac(n, d) == [num |-> n, den |-> d]

\* a > b, for fractions whose denominators are positive
FracGreater(a, b) == a.num * b.den > b.num * a.den

\* twice the value of a fraction whose denominator is 1 or 2
Halves(x) == (2 * x.num) \div x.den

\* every adjusted total but the wrong one: the larger of the two regulated totals
adjust_with_max(e) ==
    [e EXCEPT !.total_unregulated =
        IF @ = 0 THEN Frac(Max({e.total_upregulated, e.total_downregulated}), 2)
        ELSE Frac(@, 1)]

\* Enrichment.adjust_background_sites; total_unregulated is left as a fraction
\* (n / 1 for the int it keeps, min / 2 for the float it is replaced by)
adjust_background_sites(e) ==
    [e EXCEPT !.total_unregulated =
        IF @ = 0 THEN Frac(Min({e.total_upregulated, e.total_downregulated}), 2)
        ELSE Frac(@, 1)]

\* the tables in which only the cells that are zero are shifted
shift_zero_cells(table, shift_zeros) ==
    [i \in 1..2 |-> [j \in 1..2 |->
        IF shift_zeros /\ table[i][j] = 0 THEN 1 ELSE table[i][j]]]

\* Table2x2.__init__: the cells, counted in halves, after the shift of zeros
Table2x2(table, shift_zeros) ==
    IF shift_zeros /\ \E i \in 1..2 : \E j \in 1..2 : table[i][j] = 0
    THEN <<(<<table[1][1] + 1, table[1][2] + 1>>),
           (<<table[2][1] + 1, table[2][2] + 1>>)>>
    ELSE table

\* Table2x2.odds_ratio
odds_ratio(table) == Frac(table[1][1] * table[2][2], table[1][2] * table[2][1])

\* a p-value: the constant 0 or 1, or what fisher_exact returns for a table
ConstP(n) == [fn |-> "const", value |-> n, table |-> <<>>]

\* Table2x2.p_val(mode="greater"); the value scipy computes is not modelled
p_val(table) == [fn |-> "fisher_exact", value |-> 0, table |-> table]

\* a column computed by numpy from an enrichment value: the constant 0,
\* np.abs(np.log2(v)) or -np.abs(np.log2(v))
ConstLog2 == [fn |-> "const", arg |-> Frac(0, 1)]

\* a column computed from a p-value: the constant 0 or np.absolute(np.log10(p))
ConstLog10 == [fn |-> "const", arg |-> ConstP(0)]

\* the test that skips a direction only when it has no site at all
no_sites(total, hit) == total = 0

\* the test of _calculate_enrichment_for_row that skips the table of a direction
no_sites_or_hits(total, hit) == total = 0 \/ hit = 0

\* the columns of one direction that _calculate_enrichment_for_row computes;
\* contingency_table lists the table built (cells in halves, before the shift)
DirectionColumns(total, hit, unregulated_hit, total_unregulated, log2_fn) ==
    IF no_sites_or_hits(total, hit)
    THEN [enrichment_value |-> Frac(0, 1),
          p_value |-> ConstP(1),
          enrichment_value_log2 |-> ConstLog2,
          p_value_log10_abs |-> ConstLog10,
          contingency_table |-> <<>>]
    ELSE LET cells == <<(<<2 * hit, 2 * (total - hit)>>),
                        (<<2 * unregulated_hit,
                           Halves(total_unregulated) - 2 * unregulated_hit>>)>>
             table == Table2x2(cells, TRUE)
         IN  [enrichment_value |-> odds_ratio(table),
              p_value |-> p_val(table),
              enrichment_value_log2 |-> [fn |-> log2_fn, arg |-> odds_ratio(table)],
              p_value_log10_abs |-> [fn |-> "abs_log10", arg |-> p_val(table)],
              contingency_table |-> <<cells>>]

\* an adjusted p-value: None before the adjustment, the constant 0, or what
\* multipletests(method="fdr_bh") returns for one kinase, given the p-values of
\* the column it was run on (one hypothesis per row of the table at that time)
NoneAdjustedP == [fn |-> "None", column |-> "", kinase |-> "", hypotheses |-> <<>>]

ConstAdjustedP == [fn |-> "const", column |-> "", kinase |-> "", hypotheses |-> <<>>]

AdjustedP(table, column, k) ==
    [fn |-> "fdr_bh", column |-> column, kinase |-> k,
     hypotheses |-> [h \in DOMAIN table |-> table[h][column]]]

\* the comparison that always prefers the upregulated set on a tie
up_on_tie(upregulated_enrichment_value, downregulated_enrichment_value) ==
    ~FracGreater(downregulated_enrichment_value, upregulated_enrichment_value)

\* the test of Enrichment._determine_dominant_direction
up_dominates(upregulated_enrichment_value, downregulated_enrichment_value) ==
    FracGreater(upregulated_enrichment_value, downregulated_enrichment_value)

\* Enrichment._calculate_enrichment_for_row followed by
\* _determine_dominant_direction, on the hit counts of one row
calculate_enrichment_for_row(e, hits) ==
    LET unregulated_hit == IF hits["unregulated"] = 0 THEN 1
                           ELSE hits["unregulated"]
        up == DirectionColumns(e.total_upregulated, hits["upregulated"],
                               unregulated_hit, e.total_unregulated, "abs_log2")
        down == DirectionColumns(e.total_downregulated, hits["downregulated"],
                                 unregulated_hit, e.total_unregulated,
                                 "neg_abs_log2")
        dominant == IF up_dominates(up.enrichment_value, down.enrichment_value)
                    THEN "upregulated set" ELSE "downregulated set"
        chosen == IF dominant = "upregulated set" THEN up ELSE down
    IN  [upregulated |-> hits["upregulated"],
         downregulated |-> hits["downregulated"],
         unregulated |-> unregulated_hit,
         unlabelled |-> hits[""],
         upregulated_enrichment_value |-> up.enrichment_value,
         upregulated_enrichment_value_log2 |-> up.enrichment_value_log2,
         upregulated_p_value |-> up.p_value,
         upregulated_p_value_log10_abs |-> up.p_value_log10_abs,
         upregulated_adjusted_p_value |-> NoneAdjustedP,
         upregulated_adjusted_p_value_log10_abs |-> NoneAdjustedP,
         upregulated_contingency_table |-> up.contingency_table,
         downregulated_enrichment_value |-> down.enrichment_value,
         downregulated_enrichment_value_log2 |-> down.enrichment_value_log2,
         downregulated_p_value |-> down.p_value,
         downregulated_p_value_log10_abs |-> down.p_value_log10_abs,
         downregulated_adjusted_p_value |-> NoneAdjustedP,
         downregulated_adjusted_p_value_log10_abs |-> NoneAdjustedP,
         downregulated_contingency_table |-> down.contingency_table,
         dominant_direction |-> dominant,
         dominant_enrichment_value_log2 |-> chosen.enrichment_value_log2,
         dominant_p_value_log10_abs |-> chosen.p_value_log10_abs,
         dominant_adjusted_p_value_log10_abs |-> NoneAdjustedP]

\* Enrichment._calculate_adjusted_p_values on the rows computed so far; the
\* log10 columns hold the adjusted p-value np.absolute(np.log10(...)) is taken of
calculate_adjusted_p_values(table) ==
    [k \in DOMAIN table |->
        LET up == AdjustedP(table, "upregulated_p_value", k)
            down == AdjustedP(table, "downregulated_p_value", k)
        IN  [table[k] EXCEPT
                !.upregulated_adjusted_p_value = up,
                !.downregulated_adjusted_p_value = down,
                !.upregulated_adjusted_p_value_log10_abs = up,
                !.downregulated_adjusted_p_value_log10_abs = down,
                !.dominant_adjusted_p_value_log10_abs =
                    IF table[k].dominant_direction = "downregulated set" THEN down
                    ELSE IF table[k].dominant_direction = "upregulated set" THEN up
                    ELSE @]]

\* the row reindex(..., fill_value=0) gives a kinase the table lacks
FilledRow ==
    [upregulated |-> 0,
     downregulated |-> 0,
     unregulated |-> 0,
     unlabelled |-> 0,
     upregulated_enrichment_value |-> Frac(0, 1),
     upregulated_enrichment_value_log2 |-> ConstLog2,
     upregulated_p_value |-> ConstP(0),
     upregulated_p_value_log10_abs |-> ConstLog10,
     upregulated_adjusted_p_value |-> ConstAdjustedP,
     upregulated_adjusted_p_value_log10_abs |-> ConstAdjustedP,
     upregulated_contingency_table |-> <<>>,
     downregulated_enrichment_value |-> Frac(0, 1),
     downregulated_enrichment_value_log2 |-> ConstLog2,
     downregulated_p_value |-> ConstP(0),
     downregulated_p_value_log10_abs |-> ConstLog10,
     downregulated_adjusted_p_value |-> ConstAdjustedP,
     downregulated_adjusted_p_value_log10_abs |-> ConstAdjustedP,
     downregulated_contingency_table |-> <<>>,
     dominant_direction |-> "0",
     dominant_enrichment_value_log2 |-> ConstLog2,
     dominant_p_value_log10_abs |-> ConstLog10,
     dominant_adjusted_p_value_log10_abs |-> ConstAdjustedP]

\* the table that forgets the kinases without a row
without_reindex(table, all_kinases) == table

\* Enrichment._reindex_missing_kinases
reindex_missing_kinases(table, all_kinases) ==
    [k \in (DOMAIN table) \cup all_kinases |->
        IF k \in DOMAIN table THEN table[k] ELSE FilledRow]

\* Enrichment.fisher_statistics: every row computed, the p-values of the rows
\* adjusted, then the missing kinases added
fisher_statistics(e) ==
    [e EXCEPT !.enrichment_table =
        reindex_missing_kinases(
            calculate_adjusted_p_values(
                [k \in DOMAIN e.enrichment_table |->
                    calculate_enrichment_for_row(e, e.enrichment_table[k])]),
            e.all_kinases)]

EnrichmentMethods == {"min", "max", "avg"}

\* the loop of get_enrichment over the first n rows of the stripped copy: the
\* exception that ended it, the two Enrichment objects and failed_sites
RECURSIVE EnrichmentLoop(_, _, _, _, _, _, _)
EnrichmentLoop(kx, rows, n, threshold, priming, favor, meth) ==
    IF n = 0
    THEN [exc |-> "none",
          enrichment |-> [t \in {"SER_THR", "TYR"} |-> NewEnrichment(t)],
          failed_sites |-> <<>>]
    ELSE LET done == EnrichmentLoop(kx, rows, n - 1, threshold, priming, favor, meth)
             site == StripAnnotations(rows[n].site)
             score == KinexGetScore(kx, site, priming, favor, meth)
             t == score.sequence.sequence_type
         IN  IF done.exc # "none" THEN done
             ELSE IF score.exc = "ValueError"
             THEN [done EXCEPT !.failed_sites = Append(@, site)]
             ELSE IF score.exc # "none" THEN [done EXCEPT !.exc = score.exc]
             ELSE IF t \notin {"SER_THR", "TYR"}
             THEN [done EXCEPT !.failed_sites = Append(@, site)]
             ELSE [done EXCEPT
                      !.enrichment[t] = Accumulate(@, score, rows[n].fc, threshold)]

\* Kinex.get_enrichment as a whole: the exception raised, or the two Enrichment
\* objects after adjust_background_sites and fisher_statistics, and failed_sites
KinexGetEnrichment(kx, rows, threshold, priming, favor, meth) ==
    IF meth \notin EnrichmentMethods
    THEN [exc |-> "ValueError", enrichment |-> NoEnrichment, failed_sites |-> <<>>]
    ELSE LET done == EnrichmentLoop(kx, rows, Len(rows), threshold, priming, favor,
                                    meth)
         IN  IF done.exc # "none" THEN done
             ELSE [done EXCEPT
                      !.enrichment =
                          [t \in DOMAIN @ |->
                              fisher_statistics(adjust_background_sites(@[t]))]]

\* the rows get_enrichment is given in the model
EnrichmentSites ==
    {<<"A", "S", "A">>,
     <<"A", "(", "u", "b", ")", "Y", "A">>,
     <<"S", "(", "p", "h", ")", "A">>,
     <<"B", "S", "*">>,
     <<"S", "*", "*">>}

FoldChanges == {Float(-1), Float(0), Float(1), NaN}

Thresholds == {0, 1}

InputRows == [site : EnrichmentSites, fc : FoldChanges]

InitEnrich ==
    /\ kinex = KinexInit("ascending")
    /\ input_sites \in UNION {[1..n -> InputRows] : n \in 0..MaxRows}
    /\ fc_threshold \in Thresholds
    /\ phospho_priming \in BOOLEAN
    /\ favorability = FALSE
    /\ method \in {"avg", "all"}
    /\ input_sites_copy = <<>>
    /\ id = 0
    /\ failed_sites = <<>>
    /\ enrichment = NoEnrichment
    /\ score_result = NoScore
    /\ pc = "call"
    /\ exc = "none"
    /\ IdleSequence /\ IdlePercentile /\ IdleQueries

\* get_enrichment up to its loop: the method check, the stripped copy, the two
\* Enrichment objects and the empty failed_sites
BeginEnrichment ==
    /\ pc = "call"
    /\ IF method \notin EnrichmentMethods
       THEN /\ exc' = "ValueError"
            /\ pc' = "raised"
            /\ UNCHANGED <<input_sites_copy, enrichment, failed_sites, id,
                           table2x2, answer>>
       ELSE /\ input_sites_copy' =
                  [i \in 1..Len(input_sites) |->
                      [site |-> StripAnnotations(input_sites[i].site),
                       fc |-> input_sites[i].fc]]
            /\ enrichment' = [t \in {"SER_THR", "TYR"} |-> NewEnrichment(t)]
            /\ failed_sites' = <<>>
            /\ id' = 0
            /\ pc' = "loop"
            /\ exc' = "none"
    /\ UNCHANGED <<kinex, sequence, phospho_priming, favorability, method,
                   sequence_object, sequences, columns, score_result, reference,
                   log_score, percentile, input_sites, fc_threshold, table2x2, answer>>

\* one iteration of the loop over the rows
ProcessRow ==
    /\ pc = "loop"
    /\ id < Len(input_sites_copy)
    /\ LET row == input_sites_copy[id + 1]
           score == KinexGetScore(kinex, row.site, phospho_priming, favorability,
                                  method)
           t == score.sequence.sequence_type
       IN  /\ score_result' = score
           /\ IF score.exc = "ValueError"
              THEN /\ failed_sites' = Append(failed_sites, row.site)
                   /\ id' = id + 1
                   /\ UNCHANGED <<enrichment, pc, exc, table2x2, answer>>
              ELSE IF score.exc # "none"
              THEN /\ exc' = score.exc
                   /\ pc' = "raised"
                   /\ UNCHANGED <<enrichment, failed_sites, id, table2x2, answer>>
              ELSE IF t \notin {"SER_THR", "TYR"}
              THEN /\ failed_sites' = Append(failed_sites, row.site)
                   /\ id' = id + 1
                   /\ UNCHANGED <<enrichment, pc, exc, table2x2, answer>>
              ELSE /\ enrichment' =
                         [enrichment EXCEPT
                             ![t] = Accumulate(@, score, row.fc, fc_threshold)]
                   /\ id' = id + 1
                   /\ UNCHANGED <<failed_sites, pc, exc, table2x2, answer>>
    /\ UNCHANGED <<kinex, sequence, phospho_priming, favorability, method,
                   sequence_object, sequences, columns, reference, log_score,
                   percentile, input_sites, input_sites_copy, fc_threshold,
                   table2x2, answer>>

\* the loop of get_enrichment was entered, whether or not it is over
loop_entered == pc = "object" \/ pc = "loop"

\* the loop of get_enrichment is over, or the Enrichment objects were set up by
\* the caller
Accumulated ==
    \/ pc = "object"
    \/ pc = "loop" /\ id = Len(input_sites_copy)

\* the two calls of adjust_background_sites that follow the loop
AdjustBackgroundSites ==
    /\ Accumulated
    /\ enrichment' = [t \in DOMAIN enrichment |-> adjust_background_sites(enrichment[t])]
    /\ pc' = "adjusted"
    /\ UNCHANGED <<kinex, sequence, phospho_priming, favorability, method, exc,
                   sequence_object, sequences, columns, score_result, reference,
                   log_score, percentile, input_sites, input_sites_copy,
                   fc_threshold, id, failed_sites, table2x2, answer>>

\* the two calls of fisher_statistics, after which get_enrichment returns
FisherStatistics ==
    /\ pc = "adjusted"
    /\ enrichment' = [t \in DOMAIN enrichment |-> fisher_statistics(enrichment[t])]
    /\ pc' = "returned"
    /\ UNCHANGED <<kinex, sequence, phospho_priming, favorability, method, exc,
                   sequence_object, sequences, columns, score_result, reference,
                   log_score, percentile, input_sites, input_sites_copy,
                   fc_threshold, id, failed_sites, table2x2, answer>>

NextEnrich ==
    BeginEnrichment \/ ProcessRow \/ AdjustBackgroundSites \/ FisherStatistics

SpecEnrich == InitEnrich /\ [][NextEnrich]_vars

\* get_enrichment with its options fixed, for the runs that are compared with
\* the runs on the same rows in another order
InitOrder ==
    /\ kinex = KinexInit("ascending")
    /\ input_sites \in UNION {[1..n -> InputRows] : n \in 0..MaxRows}
    /\ fc_threshold = 1
    /\ phospho_priming = FALSE
    /\ favorability = FALSE
    /\ method = "avg"
    /\ input_sites_copy = <<>>
    /\ id = 0
    /\ failed_sites = <<>>
    /\ enrichment = NoEnrichment
    /\ score_result = NoScore
    /\ pc = "call"
    /\ exc = "none"
    /\ IdleSequence /\ IdlePercentile /\ IdleQueries

SpecOrder == InitOrder /\ [][NextEnrich]_vars

(***************************************************************************)
(* Enrichment objects set up directly, as the tests of enrichment.py do    *)
(***************************************************************************)
\* the hit counts a row may hold when the totals are u, d and n
HitRows(u, d, n) ==
    {[c \in HitColumns |->
         CASE c = "upregulated" -> a
           [] c = "downregulated" -> b
           [] c = "unregulated" -> x
           [] OTHER -> 0] :
     a \in 0..Min({u, MaxHits}), b \in 0..Min({d, MaxHits}),
     x \in 0..Min({n, MaxHits})}

\* the TYR objects: any totals, and a table with rows for some of the kinases
EnrichmentObjects ==
    UNION {
        {[NewEnrichment("TYR") EXCEPT
             !.total_upregulated = u,
             !.total_downregulated = d,
             !.total_unregulated = n,
             !.enrichment_table = table] :
         table \in UNION {[K -> HitRows(u, d, n)] :
                          K \in SUBSET ToSet(PssmIndex("TYR"))}} :
        u \in 0..MaxTotal, d \in 0..MaxTotal, n \in 0..MaxUnregulated}

InitStats ==
    /\ kinex = KinexInit("ascending")
    /\ \E e \in EnrichmentObjects :
           enrichment = [t \in {"SER_THR", "TYR"} |->
                            IF t = "TYR" THEN e ELSE NewEnrichment(t)]
    /\ input_sites = <<>>
    /\ input_sites_copy = <<>>
    /\ fc_threshold = 0
    /\ id = 0
    /\ failed_sites = <<>>
    /\ pc = "object"
    /\ exc = "none"
    /\ IdleSequence /\ IdleScore /\ IdlePercentile /\ IdleQueries

NextStats == AdjustBackgroundSites \/ FisherStatistics

SpecStats == InitStats /\ [][NextStats]_vars

(***************************************************************************)
(* Table2x2 on its own, as its tests drive it                              *)
(***************************************************************************)
\* the cells of the arguments, counted in halves: -0.5, 0, 0.5, 1, ...
Cells == -1..MaxCell

\* the table arguments: every 2x2 table, and the ill-formed ones of the tests
TableArguments ==
    {<<(<<a, b>>), (<<c, d>>)>> : a \in Cells, b \in Cells, c \in Cells, d \in Cells}
    \cup {<<(<<2, 4, 6>>), (<<8, 10, 12>>)>>,
          <<(<<2>>), (<<8, 10>>)>>,
          <<(<<2, 4>>), (<<10>>)>>,
          <<(<<2, 4>>)>>}

\* the shift_zeros arguments, as Python writes them
ShiftArguments == {"True", "False", "None"}

\* the setter of Table2x2.table: whether it accepts the argument
table_format_ok(table) ==
    /\ Len(table) = 2
    /\ \A i \in 1..Len(table) : Len(table[i]) = 2

\* the setter of Table2x2.shift_zeros: whether it accepts the argument
shift_zeros_ok(value) == value \in {"True", "False"}

InitTable ==
    /\ kinex = KinexInit("ascending")
    /\ \E table \in TableArguments : \E shift_zeros \in ShiftArguments :
           table2x2 = [NoTable EXCEPT !.argument = table,
                                      !.shift_zeros = shift_zeros]
    /\ answer = NoAnswer
    /\ pc = "new"
    /\ exc = "none"
    /\ IdleSequence /\ IdleScore /\ IdlePercentile /\ IdleEnrichment

\* Table2x2.__init__
ConstructTable ==
    /\ pc = "new"
    /\ LET ok == table_format_ok(table2x2.argument)
                 /\ shift_zeros_ok(table2x2.shift_zeros)
       IN  /\ exc' = IF ok THEN "none" ELSE "ValueError"
           /\ pc' = IF ok THEN "object" ELSE "raised"
           /\ table2x2' =
                  [table2x2 EXCEPT
                      !.exc = exc',
                      !.table = IF ok
                                THEN Table2x2(table2x2.argument,
                                              table2x2.shift_zeros = "True")
                                ELSE <<>>]
    /\ UNCHANGED <<kinex, sequence, phospho_priming, favorability, method,
                   sequence_object, sequences, columns, score_result, reference,
                   log_score, percentile, input_sites, input_sites_copy,
                   fc_threshold, id, failed_sites, enrichment, answer>>

\* Table2x2.odds_ratio
OddsRatio ==
    /\ pc = "object"
    /\ answer' = [op |-> "odds_ratio", arg |-> <<>>,
                  value |-> <<odds_ratio(table2x2.table)>>]
    /\ pc' = "returned"
    /\ UNCHANGED <<kinex, sequence, phospho_priming, favorability, method, exc,
                   sequence_object, sequences, columns, score_result, reference,
                   log_score, percentile, input_sites, input_sites_copy,
                   fc_threshold, id, failed_sites, enrichment, table2x2>>

NextTable == ConstructTable \/ OddsRatio

SpecTable == InitTable /\ [][NextTable]_vars

(***************************************************************************)
(* Claims                                                                  *)
(***************************************************************************)
IsSortedAscending(a) == \A i \in 1..(Len(a) - 1) : a[i] <= a[i + 1]

\* the rows of every ranking table of the Score held in score_result
RankedRows == UNION {ToSet(score_result.ranking[j]) : j \in 1..Len(score_result.ranking)}

\* C2: every percentile_score of a Score returned by Kinex.get_score is greater
\* than 0 and at most 100.
C2_PercentileInRange ==
    pc = "returned" =>
        \A r \in RankedRows :
            /\ r.percentile_score.num > 0
            /\ r.percentile_score.num <= 100 * r.percentile_score.den

\* C3: against a reference list sorted ascending, the percentile of a log2 score x
\* is (number of entries strictly less than x, plus 1) * 100 / (length of the list).
C3_PercentileCountsStrictlyLess ==
    (pc = "ranked" /\ IsSortedAscending(reference)) =>
        /\ percentile.num =
              (Cardinality({i \in 1..Len(reference) : reference[i] < log_score}) + 1) * 100
        /\ percentile.den = Len(reference)

\* C3 witness: a lookup in a sorted list that holds entries below x and equal to x
C3_Witness ==
    /\ pc = "ranked"
    /\ IsSortedAscending(reference)
    /\ \E i \in 1..Len(reference) : reference[i] = log_score
    /\ \E i \in 1..Len(reference) : reference[i] < log_score
    /\ percentile.num = 200

\* the acceptor family a residue stands for, as the claims name it
FamilyOf(residue) ==
    IF Upper(residue) \in {"S", "T"} THEN "SER_THR"
    ELSE IF Upper(residue) = "Y" THEN "TYR"
    ELSE "none"

\* number of occurrences of a marker in a string
MarkerCount(s, marker) == Len(Split(s, marker)) - 1

\* the residues of a string: all its characters outside the marker occurrences
ResiduesOf(s, marker) ==
    IF marker = <<>> THEN ToSet(s) ELSE ToSet(Concat(Split(s, marker)))

\* every marker of the string follows an S, T or Y
MarkersFollowAcceptor(s, marker) ==
    LET fragments == Split(s, marker)
    IN  \A i \in 1..(Len(fragments) - 1) :
            /\ fragments[i] # <<>>
            /\ FamilyOf(fragments[i][Len(fragments[i])]) # "none"

\* C4: after preprocess_sequence of a sequence with k markers, `sequences` holds
\* one candidate per valid marker and nothing else (k candidates when every marker
\* follows S, T or Y and all residues are allowed), each with exactly one marker.
C4_OneCandidatePerMarker ==
    (pc = "preprocessed" /\ sequence_object.kind = "separator") =>
        LET marker == sequence_object.separator
            k == MarkerCount(sequence, marker)
        IN  /\ \A n \in 1..Len(sequences) : MarkerCount(sequences[n], marker) = 1
            /\ Len(sequences) <= k
            /\ ( /\ MarkersFollowAcceptor(sequence, marker)
                 /\ ResiduesOf(sequence, marker) \subseteq allowed_characters \ {"*"} )
               => Len(sequences) = k

\* a string of allowed residues with exactly one marker, right after S, T or Y
SingleMarkerSite(s) ==
    \E marker \in {ASTERISK, PH} :
        /\ MarkerCount(s, marker) = 1
        /\ MarkersFollowAcceptor(s, marker)
        /\ Split(s, marker)[1][Len(Split(s, marker)[1])] \in {"S", "T", "Y"}
        /\ ResiduesOf(s, marker) \subseteq allowed_characters \ {"*"}

\* C5: Kinex.get_score raises nothing for a sequence of allowed residues with
\* exactly one marker, '*' or '(ph)', right after an S, T or Y, whatever
\* phospho_priming is (the sequence has at least 3 characters, the method is known).
C5_SingleMarkerSiteIsScored ==
    ( /\ pc \in {"returned", "raised"}
      /\ Len(sequence) >= 3
      /\ method \in Methods
      /\ SingleMarkerSite(sequence) )
    => exc = "none"

\* C6: Kinex.get_score raises ValueError, before any PSSM scoring, for a
\* separator-marked sequence that holds a character outside the allowed alphabet or
\* two adjacent markers.
C6_InvalidSeparatorSequenceRaises ==
    ( /\ pc \in {"returned", "raised"}
      /\ Len(sequence) >= 3
      /\ method \in Methods
      /\ score_result.sequence.kind = "separator"
      /\ LET marker == score_result.sequence.separator
             s == score_result.sequence.sequence_string
         IN  \/ Contains(s, marker \o marker)
             \/ ~(ResiduesOf(s, marker) \subseteq allowed_characters) )
    => (exc = "ValueError" /\ ~score_result.scored)

\* C7: get_sequence_object gives a string that contains '*' or '(ph)' a
\* SeparatorSequence typed by the residue before the first occurrence of the
\* marker, never a CentralSequence; otherwise an odd-length string a
\* CentralSequence typed by its middle residue; otherwise ValueError; and
\* ValueError when the typing residue is not S, T or Y.
C7_ClassificationOrder ==
    pc # "new" =>
        LET o == sequence_object
            marker == IF Contains(sequence, ASTERISK) THEN ASTERISK ELSE PH
            position == Find(sequence, marker)
        IN  IF Contains(sequence, ASTERISK) \/ Contains(sequence, PH)
            THEN /\ o.kind # "central"
                 /\ position > 0 =>
                       IF FamilyOf(sequence[position]) = "none"
                       THEN o.exc = "ValueError"
                       ELSE /\ o.kind = "separator"
                            /\ o.separator = marker
                            /\ o.sequence_type = FamilyOf(sequence[position])
            ELSE IF Len(sequence) % 2 = 1
            THEN IF FamilyOf(sequence[Middle(sequence)]) = "none"
                 THEN o.exc = "ValueError"
                 ELSE /\ o.kind = "central"
                      /\ o.sequence_type = FamilyOf(sequence[Middle(sequence)])
            ELSE o.exc = "ValueError"

\* a string the contract of get_score counts as no phosphosite: a disallowed
\* residue, a marker that follows no S, T or Y, or, without marker, an even length
\* or a middle residue other than S, T or Y
NotAPhosphosite(s) ==
    LET marker == IF Contains(s, ASTERISK) THEN ASTERISK
                  ELSE IF Contains(s, PH) THEN PH ELSE <<>>
    IN  \/ ~(ResiduesOf(s, marker) \subseteq allowed_characters \ {"*"})
        \/ marker # <<>> /\ ~MarkersFollowAcceptor(s, marker)
        \/ marker = <<>> /\ Len(s) % 2 = 0
        \/ marker = <<>> /\ Len(s) % 2 = 1 /\ FamilyOf(s[Middle(s)]) = "none"

\* C1: get_enrichment never aborts on a bad row: it raises only for an
\* unsupported method, and every processed row that is no phosphosite is in
\* failed_sites.
C1_BadRowsAreCollected ==
    /\ pc = "raised" => method \notin EnrichmentMethods
    /\ pc = "loop" =>
           \A i \in 1..id :
               NotAPhosphosite(input_sites_copy[i].site) =>
                   input_sites_copy[i].site \in ToSet(failed_sites)

\* a step of the loop that scored its row and accumulated it
ScoredStep ==
    /\ pc = "loop" /\ pc' = "loop"
    /\ id' = id + 1
    /\ failed_sites' = failed_sites

OtherFamily(t) == IF t = "SER_THR" THEN "TYR" ELSE "SER_THR"

\* the label the contract gives fold change v under threshold t
ExpectedLabel(v, t) ==
    IF FloatGe(v, t) THEN "upregulated"
    ELSE IF FloatLe(v, 0 - t) THEN "downregulated"
    ELSE "unregulated"

Bump(label, column) == IF label = column THEN 1 ELSE 0

\* C8: a scored row with fold change v is labelled upregulated if v >= t, else
\* downregulated if v <= -t, else unregulated, and exactly the total of that label
\* grows by 1 in the family of the row; the other family keeps its totals.
C8_RowIsLabelledAndCounted ==
    [][ScoredStep =>
          LET t == score_result'.sequence.sequence_type
              label == ExpectedLabel(input_sites_copy[id + 1].fc, fc_threshold)
              before == enrichment[t]
              after == enrichment'[t]
          IN  /\ after.regulation_list = Append(before.regulation_list, label)
              /\ after.total_upregulated
                     = before.total_upregulated + Bump(label, "upregulated")
              /\ after.total_downregulated
                     = before.total_downregulated + Bump(label, "downregulated")
              /\ after.total_unregulated
                     = before.total_unregulated + Bump(label, "unregulated")
              /\ enrichment'[OtherFamily(t)] = enrichment[OtherFamily(t)]
       ]_vars

Hits(table, kinase, column) ==
    IF kinase \in DOMAIN table THEN table[kinase][column] ELSE 0

\* C9: a scored row adds exactly 1 to the hit counter of its label for each of
\* the first 15 kinases of its ranking (all of them when the table is shorter);
\* no other counter of the family changes and the other family keeps its table.
C9_TopKinasesAreCounted ==
    [][ScoredStep =>
          LET t == score_result'.sequence.sequence_type
              ranking == score_result'.ranking[1]
              n == IF Len(ranking) < TopN THEN Len(ranking) ELSE TopN
              first == {ranking[i].kinase : i \in 1..n}
              label == enrichment'[t].regulation_list[Len(enrichment'[t].regulation_list)]
              before == enrichment[t].enrichment_table
              after == enrichment'[t].enrichment_table
          IN  /\ DOMAIN after \subseteq ToSet(PssmIndex(t))
              /\ \A k \in ToSet(PssmIndex(t)) : \A c \in HitColumns :
                     Hits(after, k, c)
                         = Hits(before, k, c)
                           + (IF k \in first /\ c = label THEN 1 ELSE 0)
              /\ enrichment'[OtherFamily(t)].enrichment_table
                     = enrichment[OtherFamily(t)].enrichment_table
       ]_vars

\* a SER_THR site filled 15 of the 16 rows of its table and a TYR site, whose
\* ranking is shorter than 15, filled all of its own
C9_Witness ==
    /\ pc = "loop" /\ id = 2
    /\ Len(PssmIndex("SER_THR")) > TopN
    /\ Cardinality(DOMAIN enrichment["SER_THR"].enrichment_table) = TopN
    /\ DOMAIN enrichment["TYR"].enrichment_table = ToSet(PssmIndex("TYR"))
    /\ \A k \in DOMAIN enrichment["SER_THR"].enrichment_table :
           enrichment["SER_THR"].enrichment_table[k]["upregulated"] = 1

Totals(e) == e.total_upregulated + e.total_downregulated + e.total_unregulated

\* C10: when the loop ends, the six totals and len(failed_sites) add up to
\* the number of input rows; a failed row changes no total and no table; and
\* failed_sites grows by the failed row, in input order.
C10_EveryRowIsAccounted ==
    [][ /\ (pc' = "loop" /\ id' = Len(input_sites_copy')) =>
               Totals(enrichment'["SER_THR"]) + Totals(enrichment'["TYR"])
                   + Len(failed_sites') = Len(input_sites')
        /\ (pc = "loop" /\ failed_sites' # failed_sites) =>
               /\ enrichment' = enrichment
               /\ failed_sites' = Append(failed_sites, input_sites_copy[id + 1].site)
      ]_vars

Families == {"SER_THR", "TYR"}

\* a step that ran adjust_background_sites on both objects
AdjustStep == Accumulated /\ pc' = "adjusted"

\* a step that ran fisher_statistics on both objects
FisherStep == pc = "adjusted" /\ pc' = "returned"

\* C11: adjust_background_sites sets total_unregulated to
\* min(total_upregulated, total_downregulated) / 2 when it is 0, keeps its value
\* otherwise, and changes neither of the other totals nor any hit counter.
C11_BackgroundIsHalfTheSmallerTotal ==
    [][AdjustStep =>
          \A t \in Families :
              LET before == enrichment[t]
                  after == enrichment'[t]
                  smaller == IF before.total_upregulated <= before.total_downregulated
                             THEN before.total_upregulated
                             ELSE before.total_downregulated
              IN  /\ before.total_unregulated = 0 =>
                         2 * after.total_unregulated.num
                             = smaller * after.total_unregulated.den
                  /\ before.total_unregulated # 0 =>
                         after.total_unregulated.num
                             = before.total_unregulated * after.total_unregulated.den
                  /\ after.total_upregulated = before.total_upregulated
                  /\ after.total_downregulated = before.total_downregulated
                  /\ after.enrichment_table = before.enrichment_table
       ]_vars

\* totals 4 and 2 with no unregulated site were adjusted to 1
C11_Witness ==
    /\ pc = "adjusted"
    /\ enrichment["TYR"].total_upregulated = 4
    /\ enrichment["TYR"].total_downregulated = 2
    /\ enrichment["TYR"].total_unregulated = Frac(2, 2)

\* what the contract asks of the columns of one direction of a computed row
SkippedDirection(value, value_log2, p_value, p_value_log10_abs, table) ==
    /\ value.num = 0
    /\ value_log2 = ConstLog2
    /\ p_value = ConstP(1)
    /\ p_value_log10_abs.fn = "const"
    /\ table = <<>>

Appeared(e) ==
    UNION {ToSet(e.top15_kinases_list[i]) : i \in 1..Len(e.top15_kinases_list)}

TablesOf(row) ==
    ToSet(row.upregulated_contingency_table)
        \cup ToSet(row.downregulated_contingency_table)

\* C15: in every run of get_enrichment, each contingency table that
\* fisher_statistics builds has four non-negative cells before the shift of zeros.
C15_CellsAreNonNegative ==
    pc = "returned" =>
        \A t \in Families : \A k \in DOMAIN enrichment[t].enrichment_table :
            \A table \in TablesOf(enrichment[t].enrichment_table[k]) :
                \A i \in 1..2 : \A j \in 1..2 : table[i][j] >= 0

\* the acceptor residues of a scored sequence, upper-cased: the middle residue
\* of a central sequence, the residue before each marker of a separator sequence
Acceptors(obj) ==
    IF obj.kind = "central"
    THEN {Upper(obj.sequence_string[Middle(obj.sequence_string)])}
    ELSE LET fragments == Split(obj.sequence_string, obj.separator)
         IN  {Upper(fragments[i][Len(fragments[i])]) :
                 i \in {j \in 1..(Len(fragments) - 1) : fragments[j] # <<>>}}

RowIndex(sequence_type, kinase) ==
    CHOOSE i \in 1..Len(PssmIndex(sequence_type)) :
        PssmIndex(sequence_type)[i] = kinase

\* C16: with favorability enabled the raw score of a site whose acceptor is S
\* holds the extra factor '0S', one whose acceptor is T the extra factor '0T',
\* for central and separator sequences alike; with a Y acceptor, or with
\* favorability disabled, the score is the product of the window columns alone.
C16_FavorabilityAddsOneFactor ==
    (pc = "returned" /\ Cardinality(Acceptors(score_result.sequence)) = 1) =>
        LET obj == score_result.sequence
            t == obj.sequence_type
            acceptor == CHOOSE r \in Acceptors(obj) : TRUE
            extra == IF favorability /\ acceptor \in {"S", "T"}
                     THEN <<(<<0, acceptor>>)>> ELSE <<>>
        IN  \A j \in 1..Len(score_result.ranking) :
                \A r \in ToSet(score_result.ranking[j]) :
                    r.score = ColumnsProduct(RowIndex(t, r.kinase),
                                             get_columns_list(obj) \o extra)

\* the number of candidate sites the contract gives a scored sequence: one for
\* a central sequence, one per marker for a separator sequence
CandidateSites(obj) ==
    IF obj.kind = "central" THEN 1
    ELSE MarkerCount(obj.sequence_string, obj.separator)

\* C17: get_score with 'min', 'max' or 'avg' returns exactly one ranking table,
\* holding for each kinase the minimum, maximum or mean of its raw scores over
\* the candidate sites (the score of the site itself when there is one site);
\* with 'all' it returns one ranking table per candidate site.
C17_OneTablePerPolicy ==
    ( /\ pc = "returned"
      /\ \/ score_result.sequence.kind = "central"
         \/ MarkersFollowAcceptor(score_result.sequence.sequence_string,
                                  score_result.sequence.separator) ) =>
        LET obj == score_result.sequence
            t == obj.sequence_type
        IN  /\ method \in {"min", "max", "avg"} =>
                   /\ Len(score_result.ranking) = 1
                   /\ (CandidateSites(obj) = 1 /\ ~favorability) =>
                          \A i \in 1..Len(PssmIndex(t)) :
                              \E r \in ToSet(score_result.ranking[1]) :
                                  /\ r.kinase = PssmIndex(t)[i]
                                  /\ r.score = ColumnsProduct(i, get_columns_list(obj))
            /\ method = "all" =>
                   Len(score_result.ranking) = CandidateSites(obj)

\* the product of the weights of row i at the first n listed columns
RECURSIVE WeightsProduct(_, _, _)
WeightsProduct(i, listed, n) ==
    IF n = 0 THEN 1 ELSE WeightsProduct(i, listed, n - 1) * PssmWeight(i, listed[n])

\* C18: sequence.get_score returns one row per kinase row of the PSSM table,
\* in its order, holding the product of that row's weights at the listed
\* columns, which is 1 for every kinase when no column is listed.
C18_ScoreIsProductOfWeights ==
    [][(pc = "columns" /\ pc' = "scored") =>
          LET t == sequence_object.sequence_type
              table == score_result'.ranking[1]
          IN  /\ Len(table) = Len(PssmIndex(t))
              /\ \A i \in 1..Len(table) :
                     /\ table[i].kinase = PssmIndex(t)[i]
                     /\ table[i].score = WeightsProduct(i, columns, Len(columns))
                     /\ columns = <<>> => table[i].score = 1
       ]_vars

\* two columns were multiplied, to more than one of them can give for one
\* kinase, and to 1 for another
C18_Witness ==
    /\ pc = "scored"
    /\ Len(columns) = 3
    /\ \E r \in ToSet(score_result.ranking[1]) : r.score > 4
    /\ \E r \in ToSet(score_result.ranking[1]) : r.score = 1

\* the positions of the listed tokens, in the order of the list
PositionsOf(tokens) == [i \in 1..Len(tokens) |-> tokens[i][1]]

\* the places of the list where a C-terminal position does not grow
Descents(tokens) ==
    {i \in 1..(Len(tokens) - 1) :
        tokens[i][1] > 0 /\ tokens[i + 1][1] > 0 /\ tokens[i + 1][1] <= tokens[i][1]}

\* the number of C-terminal fragments of the sequence object
FragmentsAfter(obj) ==
    IF obj.kind = "central" THEN 1
    ELSE MarkerCount(obj.sequence_string, obj.separator)

AcceptorIndex(obj) ==
    IF obj.kind = "central" THEN (Len(obj.sequence_string) \div 2) + 1
    ELSE Len(Split(obj.sequence_string, obj.separator)[1])

AfterIndex(obj) == AcceptorIndex(obj) + 1 + Len(obj.separator)

\* the highest position of the window of the family
WindowHigh(sequence_type) ==
    IF sequence_type = "TYR" THEN WindowHighTyr ELSE WindowHighSerThr

\* the tokens of the residues of a site string at their own distance from the site
OwnTokens(obj) ==
    LET s == obj.sequence_string
        before == {<<j - AcceptorIndex(obj), s[j]>> : j \in 1..(AcceptorIndex(obj) - 1)}
        after == {<<j + 1 - AfterIndex(obj), s[j]>> : j \in AfterIndex(obj)..Len(s)}
    IN  {t \in before \cup after :
            /\ t[2] \notin {"X", "_"}
            /\ WindowLow <= t[1] /\ t[1] <= WindowHigh(obj.sequence_type)}

\* C20: every token of get_columns_list has a position within the window of the
\* family (-5..4 for SER_THR, -5..5 for TYR), never 0, and never the residue X
\* or _; a skipped X or _ keeps its place, so that every listed residue of a
\* sequence with one site stands at its own distance from the site.
C20_TokensAreInsideTheWindow ==
    pc = "columns" =>
        /\ \A t \in ToSet(columns) :
               /\ t[1] # 0
               /\ WindowLow <= t[1] /\ t[1] <= WindowHigh(sequence_object.sequence_type)
               /\ t[2] \notin {"X", "_"}
        /\ FragmentsAfter(sequence_object) = 1 =>
               ToSet(columns) = OwnTokens(sequence_object)

\* every other residue of both flanks is an X, and the sixth one lies outside
C20_Witness ==
    /\ pc = "columns"
    /\ Len(sequence_object.sequence_string) >= 13
    /\ "X" \in ToSet(sequence_object.sequence_string)
    /\ PositionsOf(columns) = <<-2, -4, 2, 4>>

\* a 2x2 table one of whose cells is exactly zero
HasZeroCell(table) == \E i \in 1..2 : \E j \in 1..2 : table[i][j] = 0

\* the cell of the argument, counted in halves, with 0.5 added when the shift applies
ShiftedCell(i, j) ==
    table2x2.argument[i][j]
    + (IF table2x2.shift_zeros = "True" /\ HasZeroCell(table2x2.argument)
       THEN 1 ELSE 0)

\* C21: odds_ratio returns (a' * d') / (b' * c'), the primed cells being the
\* cells of the argument plus 0.5 when shift_zeros is true and some cell of the
\* argument is zero, and the cells of the argument otherwise; the object holds
\* the four cells shifted, or the four cells unchanged.
C21_OddsRatioOfShiftedCells ==
    (pc = "returned" /\ answer.op = "odds_ratio") =>
        LET v == answer.value[1]
            numerator == ShiftedCell(1, 1) * ShiftedCell(2, 2)
            denominator == ShiftedCell(1, 2) * ShiftedCell(2, 1)
        IN  /\ v.num * denominator = numerator * v.den
            /\ v.den = 0 <=> denominator = 0
            /\ denominator = 0 => (v.num = 0 <=> numerator = 0)
            /\ table2x2.table = [i \in 1..2 |-> [j \in 1..2 |-> ShiftedCell(i, j)]]

\* [[1, 0], [3, 0]] with shift_zeros=True: the odds ratio is (1.5 * 0.5) / (0.5 * 3.5)
C21_Witness ==
    /\ pc = "returned"
    /\ table2x2.argument = <<(<<2, 0>>), (<<6, 0>>)>>
    /\ table2x2.shift_zeros = "True"
    /\ answer.value[1].num * 7 = 3 * answer.value[1].den
    /\ answer.value[1].den # 0

\* C22: constructing a Table2x2 from a table with a zero cell raises ValueError
\* with shift_zeros=False and succeeds with shift_zeros=True.
C22_ZeroCellWithoutShiftRaises ==
    ( /\ pc # "new"
      /\ table_format_ok(table2x2.argument)
      /\ HasZeroCell(table2x2.argument) ) =>
        /\ table2x2.shift_zeros = "False" => table2x2.exc = "ValueError"
        /\ table2x2.shift_zeros = "True" => table2x2.exc = "none"

\* the rows of a ranking table whose percentile is strictly above a limit
RowsAbove(table, limit) ==
    {r \in ToSet(table) : PctGreater(r.percentile_score, [num |-> limit, den |-> 1])}

\* C23: promiscuity_index(limit) returns, for each ranking table, the number of
\* kinases whose percentile_score is strictly greater than limit, a percentile
\* equal to the limit not being counted, and a greater limit never gives a
\* greater count on the same result.
C23_PromiscuityCountsStrictlyAbove ==
    (pc = "returned" /\ answer.op = "promiscuity_index") =>
        LET limit == answer.arg[1]
            ranking == score_result.ranking
        IN  /\ Len(answer.value) = Len(ranking)
            /\ \A j \in 1..Len(ranking) :
                   /\ answer.value[j] = Cardinality(RowsAbove(ranking[j], limit))
                   /\ \A higher \in {l \in Limits : l >= limit} :
                          promiscuity_index(ranking, higher)[j] <= answer.value[j]

\* a kinase stands at the 100th percentile exactly and is not counted at limit
\* 100, while another one above it is
C23_Witness ==
    /\ pc = "returned"
    /\ answer.op = "promiscuity_index"
    /\ answer.arg = <<100>>
    /\ \E r \in ToSet(score_result.ranking[1]) :
           PctEqual(r.percentile_score, [num |-> 100, den |-> 1])
    /\ answer.value[1] > 0

\* C24: each ranking table of a result of get_score is ordered by
\* percentile_score non-increasing, top(n) returns the first min(n, number of
\* kinases) rows of each, and no returned row has a lower percentile than a row
\* left out.
C24_RankingIsOrderedAndTopIsItsHead ==
    pc = "returned" =>
        /\ \A j \in 1..Len(score_result.ranking) :
               LET table == score_result.ranking[j]
               IN  \A i \in 1..(Len(table) - 1) :
                       ~PctGreater(table[i + 1].percentile_score,
                                   table[i].percentile_score)
        /\ (answer.op = "top" /\ answer.arg[1] >= 0) =>
               /\ Len(answer.value) = Len(score_result.ranking)
               /\ \A j \in 1..Len(score_result.ranking) :
                      LET table == score_result.ranking[j]
                          head == answer.value[j]
                      IN  /\ Len(head) = Min({answer.arg[1], Len(table)})
                          /\ \A i \in 1..Len(head) : head[i] = table[i]
                          /\ \A i \in 1..Len(head) :
                                 \A k \in (Len(head) + 1)..Len(table) :
                                     ~PctGreater(table[k].percentile_score,
                                                 head[i].percentile_score)

\* three rows are returned of a table of sixteen whose percentiles differ
C24_Witness ==
    /\ pc = "returned"
    /\ answer.op = "top"
    /\ answer.arg = <<3>>
    /\ Len(answer.value[1]) = 3
    /\ \E r \in ToSet(score_result.ranking[1]) :
           PctGreater(answer.value[1][3].percentile_score, r.percentile_score)

\* C25: in the table fisher_statistics leaves, a kinase with no upregulated hit
\* has upregulated_p_value 1 and a kinase with no downregulated hit has
\* downregulated_p_value 1, the kinases added by the reindexing included.
C25_NoHitsMeansPValueOne ==
    pc = "returned" =>
        \A t \in Families : \A k \in DOMAIN enrichment[t].enrichment_table :
            LET row == enrichment[t].enrichment_table[k]
            IN  /\ row.upregulated = 0 => row.upregulated_p_value = ConstP(1)
                /\ row.downregulated = 0 => row.downregulated_p_value = ConstP(1)

\* the kinases whose p-values one adjusted p-value was computed from
HypothesesOf(adjusted_p_value) == DOMAIN adjusted_p_value.hypotheses

\* C26: the Benjamini-Hochberg adjustment takes one p-value per kinase of the
\* family's full list as its hypotheses, from the upregulated column for the
\* upregulated adjustment and from the downregulated column for the other.
C26_AdjustmentCoversEveryKinase ==
    pc = "returned" =>
        \A t \in Families : \A k \in DOMAIN enrichment[t].enrichment_table :
            LET row == enrichment[t].enrichment_table[k]
            IN  /\ row.upregulated_adjusted_p_value.fn = "fdr_bh"
                /\ row.upregulated_adjusted_p_value.column = "upregulated_p_value"
                /\ HypothesesOf(row.upregulated_adjusted_p_value)
                       = ToSet(PssmIndex(t))
                /\ row.downregulated_adjusted_p_value.fn = "fdr_bh"
                /\ row.downregulated_adjusted_p_value.column = "downregulated_p_value"
                /\ HypothesesOf(row.downregulated_adjusted_p_value)
                       = ToSet(PssmIndex(t))

\* C27: for a separator-marked sequence, several markers or one, no position
\* occurs in two tokens of the list get_columns_list returns.
C27_OneTokenPerPosition ==
    (pc = "columns" /\ sequence_object.kind = "separator") =>
        \A i \in 1..Len(columns) : \A j \in 1..Len(columns) :
            columns[i][1] = columns[j][1] => i = j

\* C28: in every state of a Kinex object the reference list of every kinase is
\* sorted ascending, whatever the row order of the scoring matrix it was
\* constructed from.
C28_ReferenceListsAreSorted ==
    \A t \in Families : \A k \in DOMAIN kinex.scoring_matrix[t] :
        LET list == kinex.scoring_matrix[t][k]
        IN  \A i \in 1..(Len(list) - 1) : list[i] <= list[i + 1]

\* the orders the rows of a table of n rows can be given in
Orders(n) == {f \in [1..n -> 1..n] : \A i \in 1..n : \A j \in 1..n : f[i] = f[j] => i = j}

\* the input table of the run under way, with its rows in another order
Reordered(f) == [i \in 1..Len(input_sites) |-> input_sites[f[i]]]

\* the run of get_enrichment on a table, with the arguments of the run under way
RunOn(rows) ==
    KinexGetEnrichment(kinex, rows, fc_threshold, phospho_priming, favorability,
                       method)

\* the hit counts of a kinase in a finished table
HitsOf(row) == <<row.upregulated, row.downregulated, row.unregulated>>

\* C29: a run of get_enrichment on the same rows in any other order gives, for
\* each family, the same three totals and the same upregulated, downregulated
\* and unregulated hit counts of every kinase, and the same set of failed
\* sites; it raises when the run under way raised.
C29_RowOrderDoesNotMatter ==
    /\ pc = "returned" =>
           \A f \in Orders(Len(input_sites)) :
               LET other == RunOn(Reordered(f))
               IN  /\ other.exc = "none"
                   /\ ToSet(other.failed_sites) = ToSet(failed_sites)
                   /\ \A t \in Families :
                          LET a == enrichment[t]
                              b == other.enrichment[t]
                          IN  /\ b.total_upregulated = a.total_upregulated
                              /\ b.total_downregulated = a.total_downregulated
                              /\ b.total_unregulated = a.total_unregulated
                              /\ DOMAIN b.enrichment_table = DOMAIN a.enrichment_table
                              /\ \A k \in DOMAIN a.enrichment_table :
                                     HitsOf(b.enrichment_table[k])
                                         = HitsOf(a.enrichment_table[k])
    /\ pc = "raised" =>
           \A f \in Orders(Len(input_sites)) : RunOn(Reordered(f)).exc # "none"

\* two sites of one family, labelled differently, and a failed site or none
C29_Witness ==
    /\ pc = "returned"
    /\ Len(input_sites) = 2
    /\ input_sites[1] # input_sites[2]
    /\ enrichment["SER_THR"].total_upregulated = 1
    /\ enrichment["SER_THR"].total_downregulated = 1

\* the three totals of an Enrichment object
TotalsOf(e) == <<e.total_upregulated, e.total_downregulated, e.total_unregulated>>

\* the steps of a run of get_enrichment keep the order of the phases
PhaseStep ==
    /\ (pc' = "adjusted" /\ pc # "adjusted") =>
           /\ pc = "loop" /\ id = Len(input_sites_copy)
           /\ \A t \in Families :
                  enrichment'[t] = adjust_background_sites(enrichment[t])
    /\ (pc' = "returned" /\ pc # "returned") =>
           /\ pc = "adjusted"
           /\ \A t \in Families : enrichment'[t] = fisher_statistics(enrichment[t])
    /\ pc = "loop" => pc' \in {"loop", "adjusted", "raised"}
    /\ pc = "adjusted" =>
           /\ pc' = "returned"
           /\ \A t \in Families : TotalsOf(enrichment'[t]) = TotalsOf(enrichment[t])
    /\ pc \in {"returned", "raised"} => UNCHANGED vars

\* C30: in every run of get_enrichment the Enrichment objects are accumulating,
\* then background-adjusted, then finalized: adjust_background_sites runs once,
\* and only after the last row was accumulated, fisher_statistics runs once, and
\* only after it, and no total changes once fisher_statistics has started.
C30_PhasesInOrder ==
    /\ [][PhaseStep]_vars
    /\ [](pc \in {"adjusted", "returned"} => id = Len(input_sites_copy))

\* a run of two rows of one family that returned after both phases
C30_Witness ==
    /\ pc = "returned"
    /\ id = 2
    /\ enrichment["SER_THR"].total_upregulated = 2
    /\ enrichment["SER_THR"].total_unregulated = Frac(0, 2)

====
